---- MODULE Spec2Model ----
(***************************************************************************)
(* Model of the end-to-end test harness of sf-ai-cli-practice:             *)
(*   playwright/utils/salesforce-api.ts  (SalesforceAPI, the REST client)  *)
(*   playwright/utils/test-data.ts       (TestDataManager)                 *)
(* One TestDataManager instance and one SalesforceAPI instance, driven by  *)
(* a test that awaits every call before making the next one (as every      *)
(* test of the repository does).  An asynchronous method is cut at its     *)
(* await points: one action runs from one suspension point to the next.    *)
(*                                                                         *)
(* Text is modelled as a sequence of tokens: a digit is one token, a       *)
(* literal piece of a template string is one token (it holds no digit).    *)
(***************************************************************************)
EXTENDS Integers, Sequences, FiniteSets, TLC

(* ---------------------------- bounds ----------------------------------- *)
\* number of records the remote creates in one run (ids 1..MaxRecords)
MaxRecords == 3

(* ------------------------- input domains ------------------------------- *)
\* the three types with a dedicated helper, and one custom object type
ObjectTypes == {"Opportunity", "Contact", "Account", "Custom__c"}
\* bodies the remote sends with an error status: an error text that holds a
\* number, an error text that quotes a record id holding the digits 404
Bodies == {<<"error ", "4", "0", "0">>, <<"error on record 001", "4", "0", "4", "AAA">>}
\* HTTP statuses the remote answers a request with, besides success
ErrorStatuses == {400, 500}
\* the id that never existed remotely (auth.setup.ts:245)
NeverId == 0

(* ------------------------------ text ----------------------------------- *)
Lit(s) == <<s>>

DigitChar == <<"0", "1", "2", "3", "4", "5", "6", "7", "8", "9">>

\* `${response.status}` of a three-digit status
StatusText(n) ==
  <<DigitChar[(n \div 100) + 1], DigitChar[((n \div 10) % 10) + 1], DigitChar[(n % 10) + 1]>>

\* error.message.includes('404')
Includes404(msg) ==
  \E i \in 1..(Len(msg) - 2) : SubSeq(msg, i, i + 2) = <<"4", "0", "4">>

\* response.ok
ResponseOk(status) == status >= 200 /\ status <= 299

(* -------------------------- REST client -------------------------------- *)
\* A response is either [kind |-> "http", status, body, id] or
\* [kind |-> "network", message]: fetch itself rejected.
HttpResp(status, body, id) == [kind |-> "http", status |-> status, body |-> body, id |-> id]
NetworkFailure == [kind |-> "network", status |-> 0, body |-> Lit("fetch failed"), id |-> NeverId]

Resolved(value) == [ok |-> TRUE, id |-> value, error |-> <<>>]
Rejected(msg) == [ok |-> FALSE, id |-> NeverId, error |-> msg]

\* createRecord without its check of response.ok
createRecord_NoOkCheck(objectType, resp) ==
  IF resp.kind = "network"
  THEN Rejected(Lit("Failed to create <objectType> record: TypeError: ") \o resp.body)
  ELSE Resolved(resp.id)

\* SalesforceAPI.createRecord: the outcome of the call for a given response
createRecord(objectType, resp) ==
  IF resp.kind = "network"
  THEN Rejected(Lit("Failed to create <objectType> record: TypeError: ") \o resp.body)
  ELSE IF ~ResponseOk(resp.status)
  THEN Rejected(Lit("Failed to create <objectType> record: Error: ")
                \o Lit("Record creation failed (") \o StatusText(resp.status) \o Lit("): ") \o resp.body)
  ELSE Resolved(resp.id)

\* the error thrown inside the try block of deleteRecord, if any
DeleteThrown(resp) ==
  IF resp.kind = "network"
  THEN [thrown |-> TRUE, name |-> "TypeError", message |-> resp.body]
  ELSE IF ~ResponseOk(resp.status) /\ resp.status # 404
  THEN [thrown |-> TRUE, name |-> "Error",
        message |-> Lit("Record deletion failed (") \o StatusText(resp.status) \o Lit("): ") \o resp.body]
  ELSE [thrown |-> FALSE, name |-> "", message |-> <<>>]

\* the catch block of deleteRecord: does it swallow the error?
DeleteCatchIgnores(thrown) == Includes404(thrown.message)

\* deleteRecord that treats not-found like any other failure
deleteRecord_Strict(objectType, resp) ==
  IF resp.kind = "http" /\ ResponseOk(resp.status) THEN Resolved(NeverId)
  ELSE Rejected(Lit("Failed to delete <objectType> record: ") \o resp.body)

\* SalesforceAPI.deleteRecord: the outcome of the call for a given response
deleteRecord(objectType, resp) ==
  LET t == DeleteThrown(resp)
  IN IF ~t.thrown THEN Resolved(NeverId)
     ELSE IF DeleteCatchIgnores(t) THEN Resolved(NeverId)
     ELSE Rejected(Lit("Failed to delete <objectType> record: ")
                   \o Lit(t.name) \o Lit(": ") \o t.message)

(* --------------------------- the remote -------------------------------- *)
\* The remote store is the set of the ids of the records that exist; ids are
\* unique over all object types.

\* what the remote may answer to POST /sobjects/<objectType>, the next free id being id
CreateResponses(id) ==
  (IF id <= MaxRecords THEN {HttpResp(201, <<>>, id)} ELSE {})
  \cup {HttpResp(s, b, NeverId) : s \in ErrorStatuses, b \in Bodies}
  \cup {NetworkFailure}

\* what the remote may answer to DELETE /sobjects/<objectType>/<id>
DeleteResponses(store, id) ==
  (IF id \in store THEN {HttpResp(204, <<>>, NeverId)} ELSE {HttpResp(404, Lit("NOT_FOUND"), NeverId)})
  \cup {HttpResp(s, b, NeverId) : s \in ErrorStatuses, b \in Bodies}
  \cup {NetworkFailure}

\* the remote store after it answered resp to a delete of id
StoreAfterDelete(store, id, resp) ==
  IF resp.kind = "http" /\ resp.status = 204 THEN store \ {id} ELSE store

\* an HTTP request, as the log of requests records it
Request(method, objectType, id) == [method |-> method, type |-> objectType, id |-> id]

(* ------------------------ TestDataManager ------------------------------ *)
Helpers == {"createTestAccount", "createTestContact", "createTestOpportunity", "createTestRecord"}

\* the object type a helper passes to createRecord
SentType(helper, objectType) ==
  CASE helper = "createTestAccount" -> "Account"
    [] helper = "createTestContact" -> "Contact"
    [] helper = "createTestOpportunity" -> "Opportunity"
    [] OTHER -> objectType

\* every helper tracking the record under the type argument it was given
TrackedType_Argument(helper, objectType) == objectType

\* the type a helper writes into the tracked record
TrackedType(helper, objectType) ==
  CASE helper = "createTestAccount" -> "Account"
    [] helper = "createTestContact" -> "Contact"
    [] helper = "createTestOpportunity" -> "Opportunity"
    [] OTHER -> objectType

\* assignment of a one-element list instead of push
Track_Assign(records, type, id) == <<[type |-> type, id |-> id]>>

\* this.createdRecords.push({ type, id, name })
Track(records, type, id) == Append(records, [type |-> type, id |-> id])

\* parents before children
deletionOrder_ParentsFirst == <<"Account", "Contact", "Opportunity">>

\* const deletionOrder = ['Opportunity', 'Contact', 'Account']
deletionOrder == <<"Opportunity", "Contact", "Account">>

Range(s) == {s[i] : i \in 1..Len(s)}

\* the phases of cleanup: one per entry of deletionOrder, then the other
\* records, then the end
OtherPhase == Len(deletionOrder) + 1
DonePhase == Len(deletionOrder) + 2

\* this.createdRecords.filter(r => r.type === objectType)
recordsToDelete(records, objectType) == SelectSeq(records, LAMBDA r : r.type = objectType)

\* the records of unlisted types forgotten
otherRecords_None(records) == <<>>

\* this.createdRecords.filter(r => !deletionOrder.includes(r.type))
otherRecords(records) == SelectSeq(records, LAMBDA r : r.type \notin Range(deletionOrder))

\* a loop that ends after its first record
PhaseRecords_FirstOnly(records, phase) ==
  LET list == IF phase <= Len(deletionOrder) THEN recordsToDelete(records, deletionOrder[phase])
              ELSE otherRecords(records)
  IN IF Len(list) = 0 THEN list ELSE <<list[1]>>

\* the list a loop of cleanup walks: the records of one listed type, or the others
PhaseRecords(records, phase) ==
  IF phase <= Len(deletionOrder) THEN recordsToDelete(records, deletionOrder[phase])
  ELSE otherRecords(records)

\* the first phase from `phase` on whose list is not empty (DonePhase if none):
\* the loops of cleanup pass over a type without tracked records
RECURSIVE NextPhase(_, _)
NextPhase(records, phase) ==
  IF phase >= DonePhase THEN DonePhase
  ELSE IF Len(PhaseRecords(records, phase)) > 0 THEN phase
  ELSE NextPhase(records, phase + 1)

\* no try/catch: the rejection leaves the loop
CleanupTryCatch_Rethrow(outcome) == "throw"

\* the try/catch around each deleteRecord of cleanup: what the loop does when
\* deleteRecord rejected
CleanupTryCatch(outcome) == "continue"

\* the collection left as it is
ClearedRecords_Kept(records) == records

\* this.createdRecords = [] at the end of cleanup
ClearedRecords(records) == <<>>

\* the filter inverted: r.id === recordId
excludeFilter_Inverted(records, recordId) == SelectSeq(records, LAMBDA r : r.id = recordId)

\* excludeFromCleanup: this.createdRecords.filter(r => r.id !== recordId)
excludeFilter(records, recordId) == SelectSeq(records, LAMBDA r : r.id # recordId)

\* getCreatedRecords: [...this.createdRecords]
getCreatedRecords(records) == [i \in 1..Len(records) |-> records[i]]

\* getRecordIdsByType: filter by type, map to id
getRecordIdsByType(records, objectType) ==
  LET f == SelectSeq(records, LAMBDA r : r.type = objectType)
  IN [i \in 1..Len(f) |-> f[i].id]

(* ------------------------------ state ---------------------------------- *)
VARIABLES
  createdRecords,  \* TestDataManager.createdRecords
  remote,          \* the ids of the records that exist in the remote store
  nextId,          \* the id the remote gives to the next record it creates
  pc,              \* "idle", or the call that is suspended: "creating", "cleaning"
  call,            \* the locals of the suspended call
  atCall,          \* createdRecords at the moment the last call was made
  issued,          \* the HTTP requests issued by the last call, in order
  failures,        \* cleanup: the number of its deleteRecord calls that rejected so far
  ret,             \* how the last call ended (NoRet while it is suspended)
  lastResp,        \* the response to the last request of a create or of a direct delete
  calls,           \* the calls the test made without awaiting each, in call order
  auth,            \* the test run: its configuration, the setup project, the browser project
  peer,            \* the TestDataManager of another test, while this one is looked at
  store,           \* the fields of the records the remote was sent, by id
  obs,             \* what the test saw of the last call: its arguments, its payload, its result
  now              \* Date.now(), in milliseconds

vars == <<createdRecords, remote, nextId, pc, call, atCall, issued, failures, ret, lastResp,
          calls, auth, peer, store, obs, now>>

\* what the operations of one manager, awaited one by one, do not touch
aside == <<calls, auth, peer, store, obs, now>>

NoRecord == [type |-> "", id |-> NeverId]
NoCall == [op |-> "none", type |-> "", phase |-> 0, cur |-> NoRecord, todo |-> <<>>]
NoResp == [kind |-> "none", status |-> 0, body |-> <<>>, id |-> NeverId]
NoRet == [op |-> "none", ok |-> TRUE, id |-> NeverId, error |-> <<>>, value |-> <<>>]
Ret(op, outcome, value) ==
  [op |-> op, ok |-> outcome.ok, id |-> outcome.id, error |-> outcome.error, value |-> value]

\* a descriptor of the CLI's org: a field is "" when it is missing or empty
NoOrgInfo == [accessToken |-> "", instanceUrl |-> ""]

\* the test run before it starts
NoAuth ==
  [ci |-> FALSE, setup |-> "pending", attempt |-> 0, step |-> "none", orgInfo |-> NoOrgInfo,
   url |-> <<>>, trace |-> <<>>, error |-> "", navigations |-> 0, timeouts |-> 0,
   file |-> 0, tests |-> 0, apis |-> 0]

\* nothing seen yet
NoObs == [op |-> "none"]

\* the other manager, newly constructed (owned: the ids of the records it created)
NoPeer ==
  [createdRecords |-> <<>>, pc |-> "idle", call |-> NoCall, atCall |-> <<>>,
   issued |-> <<>>, failures |-> 0, owned |-> {}]

Init ==
  /\ createdRecords = <<>>
  /\ remote = {}
  /\ nextId = 1
  /\ pc = "idle"
  /\ call = NoCall
  /\ atCall = <<>>
  /\ issued = <<>>
  /\ failures = 0
  /\ ret = Ret("new", Resolved(NeverId), <<>>)
  /\ lastResp = NoResp
  /\ calls = <<>>
  /\ auth = NoAuth
  /\ peer = NoPeer
  /\ store = <<>>
  /\ obs = NoObs
  /\ now = 0

(* ----------------------------- creation -------------------------------- *)
\* a helper is called: it builds the payload and awaits api.createRecord,
\* which issues its request (objectType is the argument of createTestRecord;
\* the other helpers have none).  A run makes at most MaxRecords records.
CreateCall(helper, objectType) ==
  /\ pc = "idle"
  /\ nextId <= MaxRecords
  /\ pc' = "creating"
  /\ call' = [NoCall EXCEPT !.op = helper, !.type = objectType]
  /\ atCall' = createdRecords
  /\ issued' = <<Request("POST", SentType(helper, objectType), NeverId)>>
  /\ failures' = 0
  /\ lastResp' = NoResp
  /\ ret' = NoRet
  /\ UNCHANGED <<createdRecords, remote, nextId>>
  /\ UNCHANGED aside

\* the response arrives: createRecord resolves or rejects, the helper goes on
CreateResponse ==
  /\ pc = "creating"
  /\ \E resp \in CreateResponses(nextId) :
       LET result == createRecord(SentType(call.op, call.type), resp)
       IN /\ lastResp' = resp
          /\ IF result.ok
             THEN /\ remote' = remote \cup {resp.id}
                  /\ nextId' = nextId + 1
                  /\ createdRecords' = Track(createdRecords, TrackedType(call.op, call.type), result.id)
                  /\ ret' = Ret(call.op, Resolved(result.id), <<>>)
             ELSE /\ UNCHANGED <<remote, nextId, createdRecords>>
                  /\ ret' = Ret(call.op, result, <<>>)
  /\ pc' = "idle"
  /\ call' = NoCall
  /\ UNCHANGED <<atCall, issued, failures>>
  /\ UNCHANGED aside

(* ------------------------------ cleanup -------------------------------- *)
\* cleanup goes on from phase `from`, log being the requests it issued so far:
\* it suspends on the deleteRecord of the first record of the next type that
\* has tracked records, or, when there is none, clears the collection and returns
CleanupProceed(from, log) ==
  LET phase == NextPhase(createdRecords, from)
      list == PhaseRecords(createdRecords, phase)
  IN IF phase < DonePhase
     THEN /\ pc' = "cleaning"
          /\ call' = [NoCall EXCEPT !.op = "cleanup", !.phase = phase,
                                    !.cur = Head(list), !.todo = Tail(list)]
          /\ issued' = Append(log, Request("DELETE", Head(list).type, Head(list).id))
          /\ ret' = NoRet
          /\ UNCHANGED createdRecords
     ELSE /\ createdRecords' = ClearedRecords(createdRecords)
          /\ pc' = "idle"
          /\ call' = NoCall
          /\ issued' = log
          /\ ret' = Ret("cleanup", Resolved(NeverId), <<>>)

\* cleanup() is called: it returns at once when nothing is tracked, else it
\* runs to its first deleteRecord
CleanupCall ==
  /\ pc = "idle"
  /\ atCall' = createdRecords
  /\ failures' = 0
  /\ lastResp' = NoResp
  /\ IF Len(createdRecords) = 0
     THEN /\ issued' = <<>>
          /\ pc' = "idle"
          /\ call' = NoCall
          /\ ret' = Ret("cleanup", Resolved(NeverId), <<>>)
          /\ UNCHANGED createdRecords
     ELSE CleanupProceed(1, <<>>)
  /\ UNCHANGED <<remote, nextId>>
  /\ UNCHANGED aside

\* the response to the delete request of cleanup arrives: cleanup goes on to the
\* next record of the list, to the next type, or to its end
CleanupResponse ==
  /\ pc = "cleaning"
  /\ \E resp \in DeleteResponses(remote, call.cur.id) :
       LET outcome == deleteRecord(call.cur.type, resp)
       IN /\ remote' = StoreAfterDelete(remote, call.cur.id, resp)
          /\ failures' = IF outcome.ok THEN failures ELSE failures + 1
          /\ IF ~outcome.ok /\ CleanupTryCatch(outcome) # "continue"
             THEN \* the error leaves cleanup
                  /\ pc' = "idle"
                  /\ call' = NoCall
                  /\ ret' = Ret("cleanup", outcome, <<>>)
                  /\ UNCHANGED <<createdRecords, issued>>
             ELSE IF Len(call.todo) > 0
             THEN /\ pc' = "cleaning"
                  /\ call' = [call EXCEPT !.cur = Head(call.todo), !.todo = Tail(call.todo)]
                  /\ issued' = Append(issued, Request("DELETE", Head(call.todo).type, Head(call.todo).id))
                  /\ UNCHANGED <<createdRecords, ret>>
             ELSE CleanupProceed(call.phase + 1, issued)
  /\ UNCHANGED <<nextId, atCall, lastResp>>
  /\ UNCHANGED aside

(* ----------------------- synchronous operations ------------------------ *)
\* what a call that issues no request and is not suspended leaves behind
SyncCall ==
  /\ pc = "idle"
  /\ atCall' = createdRecords
  /\ issued' = <<>>
  /\ failures' = 0
  /\ lastResp' = NoResp
  /\ UNCHANGED <<remote, nextId, pc, call>>
  /\ UNCHANGED aside

GetCreatedRecords ==
  /\ SyncCall
  /\ ret' = Ret("getCreatedRecords", Resolved(NeverId), getCreatedRecords(createdRecords))
  /\ UNCHANGED createdRecords

GetRecordIdsByType(objectType) ==
  /\ SyncCall
  /\ ret' = Ret("getRecordIdsByType", Resolved(NeverId), getRecordIdsByType(createdRecords, objectType))
  /\ UNCHANGED createdRecords

ExcludeFromCleanup(recordId) ==
  /\ SyncCall
  /\ recordId < nextId
  /\ createdRecords' = excludeFilter(createdRecords, recordId)
  /\ ret' = Ret("excludeFromCleanup", Resolved(recordId), <<>>)

\* resetTracking that keeps the collection
ResetTracking_KeepsRecords ==
  /\ SyncCall
  /\ UNCHANGED createdRecords
  /\ ret' = Ret("resetTracking", Resolved(NeverId), <<>>)

ResetTracking ==
  /\ SyncCall
  /\ createdRecords' = <<>>
  /\ ret' = Ret("resetTracking", Resolved(NeverId), <<>>)

(* ---------------------------- environment ------------------------------ *)
\* a record leaves the remote store without the test deleting it (a cascade
\* from its parent, another user): the next delete of it is answered 404
ExternalDelete(recordId) ==
  /\ recordId \in remote
  /\ remote' = remote \ {recordId}
  /\ UNCHANGED <<createdRecords, nextId, pc, call, atCall, issued, failures, ret, lastResp>>
  /\ UNCHANGED aside

\* the test drives the manager and awaits each call
Next ==
  \/ \E h \in Helpers \ {"createTestRecord"} : CreateCall(h, "")
  \/ \E t \in ObjectTypes : CreateCall("createTestRecord", t)
  \/ CreateResponse
  \/ CleanupCall
  \/ CleanupResponse
  \/ GetCreatedRecords
  \/ \E t \in ObjectTypes : GetRecordIdsByType(t)
  \/ \E id \in 0..MaxRecords : ExcludeFromCleanup(id)
  \/ ResetTracking
  \/ \E id \in 1..MaxRecords : ExternalDelete(id)

Spec == Init /\ [][Next]_vars

(* ------------------- the test calls the REST client -------------------- *)
\* what a direct call of the REST client leaves of the manager's call
ApiCall ==
  /\ pc = "idle"
  /\ atCall' = createdRecords
  /\ failures' = 0
  /\ UNCHANGED <<createdRecords, pc, call>>
  /\ UNCHANGED aside

\* await api.createRecord(objectType, data): the request and its response
ApiCreateRecord(objectType) ==
  /\ ApiCall
  /\ \E resp \in CreateResponses(nextId) :
       LET result == createRecord(objectType, resp)
       IN /\ lastResp' = resp
          /\ remote' = IF result.ok THEN remote \cup {resp.id} ELSE remote
          /\ nextId' = IF result.ok THEN nextId + 1 ELSE nextId
          /\ ret' = Ret("createRecord", result, <<>>)
  /\ issued' = <<Request("POST", objectType, NeverId)>>

\* await api.deleteRecord(objectType, recordId): the request and its response
ApiDeleteRecord(objectType, recordId) ==
  /\ ApiCall
  /\ recordId < nextId
  /\ \E resp \in DeleteResponses(remote, recordId) :
       /\ lastResp' = resp
       /\ remote' = StoreAfterDelete(remote, recordId, resp)
       /\ ret' = Ret("deleteRecord", deleteRecord(objectType, resp), <<>>)
  /\ issued' = <<Request("DELETE", objectType, recordId)>>
  /\ UNCHANGED nextId

\* the test drives the REST client itself and awaits each call
NextApi ==
  \/ \E t \in ObjectTypes : ApiCreateRecord(t)
  \/ \E t \in ObjectTypes, id \in 0..MaxRecords : ApiDeleteRecord(t, id)

SpecApi == Init /\ [][NextApi]_vars

(* ======================= properties of cleanup ========================= *)
\* cleanup() has returned and nothing was called since
CleanupReturned == pc = "idle" /\ ret.op = "cleanup"

\* the delete request for a tracked record
DeleteOf(r) == Request("DELETE", r.type, r.id)

\* the positions of the request log that hold the delete request for r
RequestsFor(r) == {j \in 1..Len(issued) : issued[j] = DeleteOf(r)}

\* the place of a type in the deletion order the specification fixes
TypeRank(t) ==
  CASE t = "Opportunity" -> 1
    [] t = "Contact" -> 2
    [] t = "Account" -> 3
    [] OTHER -> 4

\* C1: whichever deleteRecord calls fail, cleanup() returns normally and has
\* issued a deletion for every record that was tracked when it was called.
C1_CleanupToleratesFailures ==
  CleanupReturned =>
    /\ ret.ok
    /\ \A i \in 1..Len(atCall) : RequestsFor(atCall[i]) # {}

\* C1 witness: cleanup returned after every one of its deletions (two or more) failed
C1_Witness ==
  /\ CleanupReturned
  /\ Len(atCall) >= 2
  /\ failures = Len(atCall)

\* C2: cleanup() called with N tracked records issues exactly N delete
\* requests, one per tracked record, none twice and none for another record,
\* whatever succeeds or fails; after it returned the tracked collection is empty.
C2_ExactlyOneDeletePerRecord ==
  CleanupReturned =>
    /\ Len(issued) = Len(atCall)
    /\ \A i \in 1..Len(atCall) : Cardinality(RequestsFor(atCall[i])) = 1
    /\ \A j \in 1..Len(issued) : \E i \in 1..Len(atCall) : issued[j] = DeleteOf(atCall[i])
    /\ getCreatedRecords(createdRecords) = <<>>

\* C2 witness: cleanup of several records returned, some deletions failed, some did not
C2_Witness ==
  /\ CleanupReturned
  /\ Len(atCall) >= 2
  /\ failures >= 1
  /\ failures < Len(atCall)

\* C3: a step of cleanup leaves the tracked collection as it is, except the
\* step on which the response to its last delete request arrives, a request
\* having been issued for every record tracked at the call: only that step
\* clears the collection.
C3_ClearOnlyAfterAllAttempts ==
  [][pc = "cleaning" =>
       \/ createdRecords' = createdRecords
       \/ /\ createdRecords' = <<>>
          /\ pc' = "idle"
          /\ Len(issued) = Len(atCall)
          /\ \A i \in 1..Len(atCall) : RequestsFor(atCall[i]) # {}]_vars

\* C3 witness: cleanup is suspended on its last deletion, nothing cleared yet
C3_Witness ==
  /\ pc = "cleaning"
  /\ Len(atCall) >= 2
  /\ Len(issued) = Len(atCall)
  /\ createdRecords = atCall

\* C4: the delete requests of cleanup are issued in the order of the fixed
\* list: Opportunity, then Contact, then Account, then every other type.
C4_DeletionOrder ==
  (pc = "cleaning" \/ CleanupReturned) =>
    \A i, j \in 1..Len(issued) :
      i < j => TypeRank(issued[i].type) <= TypeRank(issued[j].type)

\* C4 witness: cleanup returned, and two records were created in the opposite
\* of the order they were deleted in
C4_Witness ==
  /\ CleanupReturned
  /\ Len(issued) = Len(atCall)
  /\ \E i, j \in 1..Len(atCall) :
       /\ i < j
       /\ TypeRank(atCall[i].type) > TypeRank(atCall[j].type)
       /\ \E k, l \in 1..Len(issued) :
            k < l /\ issued[k] = DeleteOf(atCall[j]) /\ issued[l] = DeleteOf(atCall[i])

(* ======================= properties of tracking ======================== *)
\* the number of tracked entries with this id
Count(records, id) == Cardinality({i \in 1..Len(records) : records[i].id = id})

\* a helper has returned or failed and nothing was called since
HelperEnded == pc = "idle" /\ ret.op \in Helpers

\* the response is a failure of the request: no answer, or a non-success status
FailureResponse(resp) ==
  resp.kind = "network" \/ (resp.kind = "http" /\ ~(resp.status \in 200..299))

\* the object type the helper that ended was to create
CreatedType ==
  CASE ret.op = "createTestAccount" -> "Account"
    [] ret.op = "createTestContact" -> "Contact"
    [] ret.op = "createTestOpportunity" -> "Opportunity"
    [] OTHER -> issued[1].type

\* C5: no id is ever tracked twice; the id a creation returns is tracked once;
\* and an id tracked once stays tracked once over every step but the end of a
\* cleanup(), excludeFromCleanup of that id, and resetTracking().
C5_TrackedOnceUntilRemoved ==
  [][createdRecords' # createdRecords =>
       \A id \in 1..(nextId' - 1) :
         /\ Count(createdRecords', id) <= 1
         /\ (pc = "creating" /\ ret'.ok /\ ret'.id = id) => Count(createdRecords', id) = 1
         /\ (Count(createdRecords, id) = 1 /\ Count(createdRecords', id) # 1) =>
              \/ CleanupResponse /\ pc' = "idle"
              \/ ExcludeFromCleanup(id)
              \/ ResetTracking]_vars

\* C5 witness: the first record is still tracked after later creations, an
\* exclusion of another record and a read
C5_Witness ==
  /\ pc = "idle"
  /\ ret.op = "getRecordIdsByType"
  /\ Len(createdRecords) >= 2
  /\ Len(createdRecords) < nextId - 1
  /\ createdRecords[1].id = 1

\* C6: when a creation helper has returned, the id it returned is the id of the
\* remote's response, and getCreatedRecords() holds it exactly once, under the
\* object type that was created.
C6_CreatedIsTrackedOnce ==
  (HelperEnded /\ ret.ok) =>
    LET snapshot == getCreatedRecords(createdRecords)
        at == {i \in 1..Len(snapshot) : snapshot[i].id = ret.id}
    IN /\ ret.id = lastResp.id
       /\ Cardinality(at) = 1
       /\ \A i \in at : snapshot[i].type = CreatedType

\* C6 witness: createTestRecord of a custom object returned, other records being tracked
C6_Witness ==
  /\ HelperEnded
  /\ ret.ok
  /\ ret.op = "createTestRecord"
  /\ Len(createdRecords) >= 2
  /\ createdRecords[Len(createdRecords)] = [type |-> "Custom__c", id |-> ret.id]

\* C7: when the request of createRecord fails, the helper fails with the error
\* of createRecord and the tracked collection is as it was before the call.
C7_FailedCreateTracksNothing ==
  (HelperEnded /\ FailureResponse(lastResp)) =>
    /\ ~ret.ok
    /\ ret.error = createRecord(issued[1].type, lastResp).error
    /\ ret.error # <<>>
    /\ createdRecords = atCall

\* C7 witness: a helper failed on an error status while a record was tracked
C7_Witness ==
  /\ HelperEnded
  /\ ~ret.ok
  /\ lastResp.kind = "http"
  /\ Len(createdRecords) >= 1

(* ====================== properties of deleteRecord ===================== *)
\* a direct call of deleteRecord has ended
DeleteEnded == pc = "idle" /\ ret.op = "deleteRecord"

\* C8: deleteRecord answered with 404 resolves, with no value.
C8_DeleteNotFoundResolves ==
  (DeleteEnded /\ lastResp.kind = "http" /\ lastResp.status = 404) =>
    /\ ret.ok
    /\ ret.value = <<>>
    /\ ret.error = <<>>

\* C8 witness: a record that was created and deleted is deleted once more, and
\* the remote answers 404
C8_Witness ==
  /\ DeleteEnded
  /\ lastResp.status = 404
  /\ issued[1].id \in 1..(nextId - 1)
  /\ issued[1].id \notin remote
  /\ ret.ok

\* C9: deleteRecord rejects on every failure of the request but not-found:
\* every non-success status other than 404, whatever the body, and every
\* network failure.
C9_DeleteRejectsOtherFailures ==
  (DeleteEnded /\ FailureResponse(lastResp) /\ lastResp.status # 404) => ~ret.ok

(* =================== properties of excludeFromCleanup ================== *)
\* C10: excludeFromCleanup(id) takes out of the tracked collection the entry of
\* that id and nothing else, keeps the order of the others, calls no remote;
\* with an untracked id it changes nothing; a cleanup() called next works on
\* the remaining entries only, and a cleanup never issues a request for a
\* record that was not tracked when it was called.
C10_ExcludeRemovesOnlyMatch ==
  [][/\ \A id \in {ret'.id} :
          (ret'.op = "excludeFromCleanup" /\ ExcludeFromCleanup(id)) =>
            /\ Count(createdRecords', id) = 0
            /\ Len(createdRecords') = Len(createdRecords) - Count(createdRecords, id)
            /\ \A i \in 1..Len(createdRecords) :
                 createdRecords[i].id # id =>
                   \E k \in 1..Len(createdRecords') : createdRecords'[k] = createdRecords[i]
            /\ \A k, l \in 1..Len(createdRecords') :
                 k < l =>
                   \E i, j \in 1..Len(createdRecords) :
                     i < j /\ createdRecords[i] = createdRecords'[k] /\ createdRecords[j] = createdRecords'[l]
            /\ (Count(createdRecords, id) = 0 => createdRecords' = createdRecords)
            /\ issued' = <<>>
            /\ remote' = remote
     /\ (ret.op = "excludeFromCleanup" /\ CleanupCall) =>
          /\ atCall' = createdRecords
          /\ Count(atCall', ret.id) = 0
     /\ (pc' = "cleaning" \/ (pc' = "idle" /\ ret'.op = "cleanup")) =>
          /\ \A j \in 1..Len(issued') : \E i \in 1..Len(atCall') : issued'[j] = DeleteOf(atCall'[i])
          /\ (pc' = "idle" => \A i \in 1..Len(atCall') : \E j \in 1..Len(issued') : issued'[j] = DeleteOf(atCall'[i]))
    ]_vars

\* C10 witness: a tracked record was excluded, two others stay tracked and the
\* excluded record still exists remotely
C10_Witness ==
  /\ pc = "idle"
  /\ ret.op = "excludeFromCleanup"
  /\ Count(atCall, ret.id) = 1
  /\ Len(createdRecords) >= 2
  /\ ret.id \in remote

(* ====================== properties of resetTracking ==================== *)
\* C11: resetTracking() empties the tracked collection and calls no remote:
\* it issues no request, the remote store is as it was, every record that was
\* tracked and existed remotely still exists; a cleanup() called next, with
\* no creation in between, issues no deletion and returns at once.
C11_ResetTrackingIsLocal ==
  [][/\ (ret'.op = "resetTracking" /\ ResetTracking) =>
          /\ createdRecords' = <<>>
          /\ issued' = <<>>
          /\ remote' = remote
          /\ \A i \in 1..Len(createdRecords) :
               createdRecords[i].id \in remote => createdRecords[i].id \in remote'
     /\ (ret.op = "resetTracking" /\ CleanupCall) =>
          /\ issued' = <<>>
          /\ pc' = "idle"
          /\ ret'.op = "cleanup"
          /\ remote' = remote
    ]_vars

\* C11 witness: resetTracking was called with two or more tracked records
\* that exist remotely; nothing is tracked now and they still exist
C11_Witness ==
  /\ pc = "idle"
  /\ ret.op = "resetTracking"
  /\ Len(atCall) >= 2
  /\ \A i \in 1..Len(atCall) : atCall[i].id \in remote
  /\ createdRecords = <<>>

(* ============= the test changes what getCreatedRecords returned ======== *)
\* getCreatedRecords returns [...this.createdRecords]: a new array that holds
\* the manager's own record objects.  While the test holds the array as it was
\* returned and the manager was not called since, entry k of the array and
\* entry k of createdRecords are one object.  The test makes one change to
\* an array it got.
SnapshotShared ==
  /\ pc = "idle"
  /\ ret.op = "getCreatedRecords"
  /\ ret.value = createdRecords
  /\ atCall = createdRecords

\* what a change of the returned value leaves alone
SnapshotFrame ==
  /\ UNCHANGED <<remote, nextId, pc, call, atCall, issued, failures, lastResp>>
  /\ UNCHANGED aside

\* snapshot.push(record): the array is the test's own
SnapshotPush ==
  /\ SnapshotShared
  /\ ret' = [ret EXCEPT !.value = Append(@, [type |-> "Account", id |-> NeverId])]
  /\ UNCHANGED createdRecords
  /\ SnapshotFrame

\* snapshot.splice(k, 1): the array is the test's own
SnapshotRemove(k) ==
  /\ SnapshotShared
  /\ k \in 1..Len(ret.value)
  /\ ret' = [ret EXCEPT !.value = [i \in 1..(Len(@) - 1) |-> IF i < k THEN @[i] ELSE @[i + 1]]]
  /\ UNCHANGED createdRecords
  /\ SnapshotFrame

\* snapshot[k].type = objectType: the entry is the manager's object
SnapshotSetType(k, objectType) ==
  /\ SnapshotShared
  /\ k \in 1..Len(ret.value)
  /\ ret.value[k].type # objectType
  /\ ret' = [ret EXCEPT !.value[k].type = objectType]
  /\ createdRecords' = [createdRecords EXCEPT ![k].type = objectType]
  /\ SnapshotFrame

\* snapshot[k].id = an id that no record has: the entry is the manager's object
SnapshotSetId(k) ==
  /\ SnapshotShared
  /\ k \in 1..Len(ret.value)
  /\ ret.value[k].id # NeverId
  /\ ret' = [ret EXCEPT !.value[k].id = NeverId]
  /\ createdRecords' = [createdRecords EXCEPT ![k].id = NeverId]
  /\ SnapshotFrame

\* the test creates records, reads the tracked collection, changes what it
\* got, and cleans up
NextSnapshot ==
  \/ CreateCall("createTestAccount", "")
  \/ CreateResponse
  \/ CleanupCall
  \/ CleanupResponse
  \/ GetCreatedRecords
  \/ SnapshotPush
  \/ \E k \in 1..MaxRecords : SnapshotRemove(k)
  \/ \E k \in 1..MaxRecords : SnapshotSetType(k, "Custom__c")
  \/ \E k \in 1..MaxRecords : SnapshotSetId(k)

SpecSnapshot == Init /\ [][NextSnapshot]_vars

\* C12: getCreatedRecords() returns a snapshot that is isolated from the
\* manager: no change the caller makes to the returned value (adding or
\* removing entries of the list, changing the type or the id of an entry)
\* changes the manager's tracked collection, which is what a later cleanup()
\* deletes.
C12_SnapshotIsolated ==
  [][(\/ SnapshotPush
      \/ \E k \in 1..MaxRecords : SnapshotRemove(k)
      \/ \E k \in 1..MaxRecords, t \in ObjectTypes : SnapshotSetType(k, t)
      \/ \E k \in 1..MaxRecords : SnapshotSetId(k))
       => createdRecords' = createdRecords
    ]_vars

(* ================= creation calls that are not awaited in turn ========= *)
\* the test calls creation helpers without awaiting each before the next
\* (Promise.all of several helpers): calls holds one entry per call, in call
\* order.  called and done are the times of the call and of its response on
\* one clock that counts the calls and the responses of the run.
Clock == Len(calls) + Cardinality({k \in 1..Len(calls) : calls[k].state # "pending"})

NewCall(op, objectType, id) ==
  [op |-> op, type |-> objectType, id |-> id, state |-> "pending",
   called |-> Clock + 1, done |-> 0]

\* how a call ends
Settle(entry, outcome) ==
  [entry EXCEPT !.state = IF outcome.ok THEN "resolved" ELSE "rejected",
                !.id = IF outcome.ok /\ outcome.id # NeverId THEN outcome.id ELSE @,
                !.done = Clock + 1]

\* a helper is called while earlier helper calls may still be suspended: it
\* builds its payload and suspends in api.createRecord
OverlapCreateCall(helper, objectType) ==
  /\ pc = "idle"
  /\ Len(calls) < MaxRecords
  /\ calls' = Append(calls, NewCall(helper, objectType, NeverId))
  /\ UNCHANGED <<createdRecords, remote, nextId, pc, call, atCall, issued, failures, ret, lastResp>>
  /\ UNCHANGED <<auth, peer, store, obs, now>>

\* the helper that puts its record in front of the list
OverlapTracked_First(records, entry, id) ==
  <<[type |-> TrackedType(entry.op, entry.type), id |-> id]>> \o records

\* the helper goes on after its await: it pushes its record
OverlapTracked(records, entry, id) ==
  Track(records, TrackedType(entry.op, entry.type), id)

\* the response to the request of call k arrives, whichever calls are suspended
OverlapCreateResponse(k) ==
  /\ k \in 1..Len(calls)
  /\ calls[k].state = "pending"
  /\ calls[k].op \in Helpers
  /\ \E resp \in CreateResponses(nextId) :
       LET result == createRecord(SentType(calls[k].op, calls[k].type), resp)
       IN /\ lastResp' = resp
          /\ calls' = [calls EXCEPT ![k] = Settle(@, result)]
          /\ ret' = Ret(calls[k].op, result, <<>>)
          /\ IF result.ok
             THEN /\ remote' = remote \cup {resp.id}
                  /\ nextId' = nextId + 1
                  /\ createdRecords' = OverlapTracked(createdRecords, calls[k], result.id)
             ELSE UNCHANGED <<remote, nextId, createdRecords>>
  /\ UNCHANGED <<pc, call, atCall, issued, failures>>
  /\ UNCHANGED <<auth, peer, store, obs, now>>

\* the test fires creation calls and their responses arrive in any order
NextOverlap ==
  \/ OverlapCreateCall("createTestAccount", "")
  \/ \E t \in {"Custom__c"} : OverlapCreateCall("createTestRecord", t)
  \/ \E k \in 1..MaxRecords : OverlapCreateResponse(k)

SpecOverlap == Init /\ [][NextOverlap]_vars

\* the call that created the tracked record of an id
CallOf(id) == CHOOSE k \in 1..Len(calls) : calls[k].state = "resolved" /\ calls[k].id = id

\* C13: the tracked records are in the order in which the creation helpers
\* were called, also when calls overlap and their responses arrive in either
\* order.
C13_TrackedInCallOrder ==
  \A i, j \in 1..Len(createdRecords) :
    i < j => CallOf(createdRecords[i].id) < CallOf(createdRecords[j].id)

\* C13 amended: the tracked records are in the order in which the responses
\* of their creation calls arrived; this is the call order for every two
\* calls of which the first had returned when the second was made.
C13_TrackedInCompletionOrder ==
  \A i, j \in 1..Len(createdRecords) :
    LET a == calls[CallOf(createdRecords[i].id)]
        b == calls[CallOf(createdRecords[j].id)]
    IN /\ i < j => a.done < b.done
       /\ (i # j /\ a.done < b.called) => i < j

\* C13 witness: a call that was made second, while the first was suspended,
\* got its response first, and its record is tracked before the other's
C13_Witness ==
  \E i, j \in 1..Len(createdRecords) :
    LET a == calls[CallOf(createdRecords[i].id)]
        b == calls[CallOf(createdRecords[j].id)]
    IN /\ i < j
       /\ b.called < a.called
       /\ a.called < b.done
       /\ a.done < b.done

(* ======================== deleteRecords (batch) ======================== *)
\* the calls that are in a given state
StateOf(cs, state) == {k \in 1..Len(cs) : cs[k].state = state}

\* a map that starts the deleteRecord of the first id only
BatchRequests_FirstOnly(objectType, recordIds) ==
  IF Len(recordIds) = 0 THEN <<>>
  ELSE <<Request("DELETE", objectType, recordIds[1])>>

\* recordIds.map(id => this.deleteRecord(objectType, id)): every deleteRecord
\* runs to its fetch, so the requests are issued in list order within the call
BatchRequests(objectType, recordIds) ==
  [i \in 1..Len(recordIds) |-> Request("DELETE", objectType, recordIds[i])]

\* the promises of the deleteRecord calls the map made
BatchPromises(requests) ==
  [i \in 1..Len(requests) |->
     [op |-> "deleteRecord", type |-> requests[i].type, id |-> requests[i].id,
      state |-> "pending", called |-> i, done |-> 0]]

\* a join that waits for every promise and never rejects
PromiseAll_Lenient(promises) ==
  IF StateOf(promises, "pending") = {} THEN "resolved" ELSE "pending"

\* Promise.all: rejected once one promise is rejected, resolved when all are
PromiseAll(promises) ==
  IF StateOf(promises, "rejected") # {} THEN "rejected"
  ELSE IF StateOf(promises, "pending") = {} THEN "resolved"
  ELSE "pending"

\* the longest list of ids a test passes to deleteRecords
MaxBatch == 2

\* the lists of ids a test passes to deleteRecords
IdLists == UNION {[1..n -> 0..MaxRecords] : n \in 0..MaxBatch}

\* api.deleteRecords(objectType, recordIds) is called: the requests go out and
\* the call suspends in await Promise.all (a run holds one batch)
ApiDeleteRecordsCall(objectType, recordIds) ==
  /\ pc = "idle"
  /\ call.op = "none"
  /\ \A i \in 1..Len(recordIds) : recordIds[i] < nextId
  /\ LET requests == BatchRequests(objectType, recordIds)
         promises == BatchPromises(requests)
     IN /\ issued' = requests
        /\ calls' = promises
        /\ IF PromiseAll(promises) = "pending"
           THEN pc' = "batch" /\ ret' = NoRet
           ELSE pc' = "idle" /\ ret' = Ret("deleteRecords", Resolved(NeverId), <<>>)
  /\ call' = [NoCall EXCEPT !.op = "deleteRecords", !.type = objectType, !.todo = recordIds]
  /\ atCall' = createdRecords
  /\ failures' = 0
  /\ lastResp' = NoResp
  /\ UNCHANGED <<createdRecords, remote, nextId>>
  /\ UNCHANGED <<auth, peer, store, obs, now>>

\* the response to the request of the k-th deleteRecord arrives: its promise
\* settles, and the call of deleteRecords, if it is still suspended, ends when
\* Promise.all settles
BatchResponse(k) ==
  /\ k \in 1..Len(calls)
  /\ calls[k].state = "pending"
  /\ calls[k].op = "deleteRecord"
  /\ \E resp \in DeleteResponses(remote, calls[k].id) :
       LET outcome == deleteRecord(calls[k].type, resp)
           settled == [calls EXCEPT ![k] = Settle(@, outcome)]
           all == PromiseAll(settled)
       IN /\ lastResp' = resp
          /\ remote' = StoreAfterDelete(remote, calls[k].id, resp)
          /\ calls' = settled
          /\ IF pc = "batch" /\ all # "pending"
             THEN /\ pc' = "idle"
                  /\ ret' = Ret("deleteRecords",
                                IF all = "resolved" THEN Resolved(NeverId) ELSE outcome, <<>>)
             ELSE UNCHANGED <<pc, ret>>
  /\ UNCHANGED <<createdRecords, nextId, call, atCall, issued, failures>>
  /\ UNCHANGED <<auth, peer, store, obs, now>>

\* a test that has created MaxRecords records with the REST client
InitBatch ==
  /\ createdRecords = <<>>
  /\ remote = 1..MaxRecords
  /\ nextId = MaxRecords + 1
  /\ pc = "idle"
  /\ call = NoCall
  /\ atCall = <<>>
  /\ issued = <<Request("POST", "Account", NeverId)>>
  /\ failures = 0
  /\ ret = Ret("createRecord", Resolved(MaxRecords), <<>>)
  /\ lastResp = HttpResp(201, <<>>, MaxRecords)
  /\ calls = <<>>
  /\ auth = NoAuth
  /\ peer = NoPeer
  /\ store = <<>>
  /\ obs = NoObs
  /\ now = 0

\* the test deletes records in batches
NextBatch ==
  \/ \E ids \in IdLists : ApiDeleteRecordsCall("Account", ids)
  \/ \E k \in 1..MaxBatch : BatchResponse(k)

SpecBatch == InitBatch /\ [][NextBatch]_vars

\* deleteRecords was the last call of the REST client
BatchCalled == call.op = "deleteRecords" /\ ret.op \in {"none", "deleteRecords"}

\* C14: deleteRecords(objectType, ids) issues one delete request for every
\* id of the list, all of them even when some fail; it resolves only if every
\* deleteRecord resolved (a not-found being a success), it rejects if any
\* deleteRecord rejected, and then with the error of the first one that failed.
C14_BatchDeletesEveryId ==
  [][BatchCalled' =>
       /\ Len(issued') = Len(call'.todo)
       /\ \A i \in 1..Len(issued') : issued'[i] = Request("DELETE", call'.type, call'.todo[i])
       /\ (ret'.op = "deleteRecords" /\ ret'.ok) =>
            StateOf(calls', "resolved") = 1..Len(call'.todo)
       /\ (ret'.op = "deleteRecords" /\ ~ret'.ok) => StateOf(calls', "rejected") # {}
       /\ (StateOf(calls', "pending") = {} /\ StateOf(calls', "rejected") # {}) =>
            (ret'.op = "deleteRecords" /\ ~ret'.ok)
       /\ (ret'.op = "deleteRecords" /\ ~ret'.ok /\ StateOf(calls, "rejected") = {}) =>
            ret'.error = deleteRecord(call'.type, lastResp').error
       /\ (ret.op = "deleteRecords" /\ ~ret.ok /\ ret'.op = "deleteRecords") => ret' = ret
    ]_vars

\* C14 witness: a batch of two ids was answered completely, both deletions
\* failed, the second of the list first, and the call rejected with an error
\* that is not the one of the failure that came last
C14_Witness ==
  /\ BatchCalled
  /\ Len(call.todo) = 2
  /\ StateOf(calls, "rejected") = {1, 2}
  /\ calls[2].done < calls[1].done
  /\ ~ret.ok
  /\ ret.error # deleteRecord(call.type, lastResp).error

\* C15: deleteRecords fires all its requests at once and joins on completion:
\* the call does not end, by resolving or by rejecting, while a delete request
\* it issued is unanswered.
C15_BatchJoinsOnCompletion ==
  (BatchCalled /\ ret.op = "deleteRecords") => StateOf(calls, "pending") = {}

\* C15 amended: deleteRecords starts the deleteRecord of every id before any
\* response is awaited, and it does not resolve while a request it issued is
\* unanswered; it rejects as soon as one deleteRecord rejects, whatever is
\* still unanswered.
C15_BatchFiresAllJoinsOnResolve ==
  BatchCalled =>
    /\ Len(calls) = Len(call.todo)
    /\ \A k \in 1..Len(calls) : calls[k].id = call.todo[k]
    /\ \A k, l \in 1..Len(calls) : calls[l].state # "pending" => calls[k].called < calls[l].done
    /\ (ret.op = "deleteRecords" /\ ret.ok) => StateOf(calls, "pending") = {}
    /\ (pc = "batch" => StateOf(calls, "rejected") = {})

\* C15 witness: deleteRecords has rejected while one of its requests is unanswered
C15_Witness ==
  /\ BatchCalled
  /\ pc = "idle"
  /\ ret.op = "deleteRecords"
  /\ ~ret.ok
  /\ StateOf(calls, "pending") # {}

(* ===================== the Session Bridge and the run ================== *)
\* auth holds the state of one run of the test runner:
\*   ci           process.env.CI is set
\*   setup        the setup project: "pending" (to run, or to run again),
\*                "passed", "failed"
\*   attempt      the number of invocations of the authenticate step so far
\*   step         the await the invocation is suspended in, or "none"
\*   orgInfo      the descriptor the invocation got from the CLI
\*   url          the URL of the page
\*   trace        what the invocation did, in order
\*   error        the error the last invocation ended with, or ""
\*   navigations  the front-door navigations of the run
\*   timeouts     the waits of the run that timed out
\*   file         the attempt that wrote the storage-state file last, 0: no file
\*   tests, apis  the browser tests started, the SalesforceAPI objects constructed

\* how many browser tests the run holds
MaxTests == 2

\* retries that do not depend on CI
Retries_Always(ci) == 2

\* retries: process.env.CI ? 2 : 0
Retries(ci) == IF ci THEN 2 ELSE 0

\* projects without the dependency
Dependencies_None == [setup |-> {}, chromium |-> {}]

\* projects: chromium has dependencies: ['setup']
Dependencies == [setup |-> {}, chromium |-> {"setup"}]

\* a project runs when every project it depends on has passed
ProjectMayStart(project) ==
  \A d \in Dependencies[project] : d = "setup" /\ auth.setup = "passed"

\* what `sf org display --json` may give: no usable output (the command
\* fails, or its output has no result), or a descriptor
OrgInfos == [accessToken : {"", "00Dxx!token"},
             instanceUrl : {"", "https://org.my.salesforce.com", "https://org.lightning.force.com"}]

\* a check of the token only
DescriptorLacks_TokenOnly(orgInfo) == orgInfo.accessToken = ""

\* !orgInfo.accessToken || !orgInfo.instanceUrl
DescriptorLacks(orgInfo) == orgInfo.accessToken = "" \/ orgInfo.instanceUrl = ""

\* the front-door URL, in pieces
FrontdoorUrl(orgInfo) ==
  <<orgInfo.instanceUrl, "/secur/frontdoor.jsp?sid=", orgInfo.accessToken,
    "&retURL=/", "lightning", "/page/home">>

HomeUrl(orgInfo) == <<orgInfo.instanceUrl, "/", "lightning", "/page/home">>

LoginUrl(orgInfo) == <<orgInfo.instanceUrl, "/">>

\* where the page may be when page.goto returns
LandingUrls(orgInfo) == {FrontdoorUrl(orgInfo), HomeUrl(orgInfo), LoginUrl(orgInfo)}

\* /lightning/.test(url)
MatchesLightning(url) ==
  \E i \in 1..Len(url) : url[i] \in {"lightning", "https://org.lightning.force.com"}

\* the statements of the step that saves before it waits
AuthSteps_SaveFirst == <<"goto", "storageState", "waitForURL">>

\* the awaited statements of the authenticate step, in order
AuthSteps == <<"goto", "waitForURL", "storageState">>

\* the statement after a statement that succeeded, "none" after the last
StepAfter(step) ==
  LET k == CHOOSE i \in 1..Len(AuthSteps) : AuthSteps[i] = step
  IN IF k < Len(AuthSteps) THEN AuthSteps[k + 1] ELSE "none"

\* what the Session Bridge and the runner leave alone
AuthFrame ==
  UNCHANGED <<createdRecords, remote, nextId, pc, call, atCall, issued, failures, ret,
              lastResp, calls, peer, store, obs, now>>

\* the invocation ends with an error: the runner runs the step again while
\* retries are left
Failed(a, error) ==
  [a EXCEPT !.step = "none", !.error = error,
            !.setup = IF a.attempt <= Retries(a.ci) THEN "pending" ELSE "failed"]

\* the invocation goes on after an awaited statement succeeded
Proceed(a, event) ==
  LET next == StepAfter(a.step)
  IN [a EXCEPT !.trace = Append(@, event),
               !.step = next,
               !.setup = IF next = "none" THEN "passed" ELSE @]

\* the runner invokes the authenticate step: the CLI is asked, the descriptor
\* is checked, the front-door navigation starts
Authenticate ==
  /\ auth.setup = "pending"
  /\ auth.step = "none"
  /\ LET a == [auth EXCEPT !.attempt = @ + 1, !.trace = <<>>, !.error = "",
                           !.orgInfo = NoOrgInfo, !.url = <<>>]
     IN \/ auth' = Failed(a, "sf org display failed")
        \/ \E orgInfo \in OrgInfos :
             LET b == [a EXCEPT !.orgInfo = orgInfo]
             IN IF DescriptorLacks(orgInfo)
                THEN auth' = Failed(b, "Failed to retrieve Access Token")
                ELSE auth' = [b EXCEPT !.step = AuthSteps[1],
                                       !.url = FrontdoorUrl(orgInfo),
                                       !.navigations = @ + 1]
  /\ AuthFrame

\* await page.goto(frontdoorUrl) ends
GotoResponse ==
  /\ auth.step = "goto"
  /\ \/ auth' = Failed(auth, "navigation failed")
     \/ \E u \in LandingUrls(auth.orgInfo) : auth' = Proceed([auth EXCEPT !.url = u], "goto")
  /\ AuthFrame

\* await page.waitForURL(/lightning/) ends: the URL matches already, or the
\* page gets to the home page, or the wait times out
WaitForUrlResponse ==
  /\ auth.step = "waitForURL"
  /\ IF MatchesLightning(auth.url)
     THEN auth' = Proceed(auth, "lightning")
     ELSE \/ auth' = Proceed([auth EXCEPT !.url = HomeUrl(auth.orgInfo)], "lightning")
          \/ auth' = Failed([auth EXCEPT !.timeouts = @ + 1], "timeout")
  /\ AuthFrame

\* await page.context().storageState({ path: authFile }) ends
StorageStateResponse ==
  /\ auth.step = "storageState"
  /\ \/ auth' = Proceed([auth EXCEPT !.file = auth.attempt], "storageState")
     \/ auth' = Failed(auth, "write failed")
  /\ AuthFrame

\* the runner starts a test of the browser project
BrowserTestStart ==
  /\ auth.step = "none"
  /\ ProjectMayStart("chromium")
  /\ auth.tests < MaxTests
  /\ auth' = [auth EXCEPT !.tests = @ + 1]
  /\ AuthFrame

\* a browser test constructs a SalesforceAPI, which reads the file
ApiConstruct ==
  /\ auth.apis < auth.tests
  /\ auth' = [auth EXCEPT !.apis = @ + 1]
  /\ AuthFrame

\* a run, in CI or not
InitAuth ==
  /\ createdRecords = <<>>
  /\ remote = {}
  /\ nextId = 1
  /\ pc = "idle"
  /\ call = NoCall
  /\ atCall = <<>>
  /\ issued = <<>>
  /\ failures = 0
  /\ ret = Ret("new", Resolved(NeverId), <<>>)
  /\ lastResp = NoResp
  /\ calls = <<>>
  /\ \E ci \in BOOLEAN : auth = [NoAuth EXCEPT !.ci = ci]
  /\ peer = NoPeer
  /\ store = <<>>
  /\ obs = NoObs
  /\ now = 0

NextAuth ==
  \/ Authenticate
  \/ GotoResponse
  \/ WaitForUrlResponse
  \/ StorageStateResponse
  \/ BrowserTestStart
  \/ ApiConstruct

SpecAuth == InitAuth /\ [][NextAuth]_vars

\* the authenticate step was invoked and its last invocation has ended
AuthEnded == auth.attempt >= 1 /\ auth.step = "none"

\* C16: when the descriptor of the CLI lacks a usable accessToken or a usable
\* instanceUrl, the authenticate step fails with an error before any browser
\* navigation, and writes no storage-state file.
C16_FailFastOnDescriptor ==
  (auth.attempt >= 1 /\ (auth.orgInfo.accessToken = "" \/ auth.orgInfo.instanceUrl = "")) =>
    /\ auth.step = "none"
    /\ auth.error # ""
    /\ auth.setup # "passed"
    /\ auth.trace = <<>>
    /\ auth.url = <<>>
    /\ auth.file # auth.attempt

\* C16 witness: the descriptor had a token and no instance URL; the step
\* failed and the run made no navigation at all
C16_Witness ==
  /\ AuthEnded
  /\ auth.orgInfo.accessToken # ""
  /\ auth.orgInfo.instanceUrl = ""
  /\ auth.error = "Failed to retrieve Access Token"
  /\ auth.navigations = 0

\* C17: the storage state is saved only after the front-door navigation was
\* made and the logged-in URL was seen, in that order; when the navigation
\* fails or the wait times out, the step fails and that invocation writes no
\* storage-state file.
C17_SaveOnlyAfterLogin ==
  /\ \A k \in 1..Len(auth.trace) :
       auth.trace[k] = "storageState" =>
         \E i, j \in 1..Len(auth.trace) :
           i < j /\ j < k /\ auth.trace[i] = "goto" /\ auth.trace[j] = "lightning"
  /\ (auth.attempt >= 1 /\ auth.file = auth.attempt) =>
       (auth.trace = <<"goto", "lightning", "storageState">> /\ MatchesLightning(auth.url))
  /\ (AuthEnded /\ auth.error \in {"navigation failed", "timeout"}) =>
       (auth.file # auth.attempt /\ auth.setup # "passed")

\* C17 witness: an invocation timed out and wrote nothing, the next one saved
\* the storage state after its navigation and its wait
C17_Witness ==
  /\ AuthEnded
  /\ auth.timeouts >= 1
  /\ auth.file = auth.attempt
  /\ auth.setup = "passed"

\* C18: a login that times out is not tried again: a run makes at most one
\* front-door navigation, and after a timeout it is over with no other
\* attempt, in CI and outside CI.
C18_NoLoginRetry ==
  /\ auth.navigations <= 1
  /\ auth.timeouts >= 1 => (auth.setup = "failed" /\ auth.attempt = 1)

\* C18 amended: an invocation of the authenticate step makes at most one
\* front-door navigation and a timeout fails it.  Outside CI the run is over
\* then, with one navigation at most; in CI the runner invokes the failed
\* step again, twice at most, so a run makes up to three navigations.
C18_LoginRetriedInCiOnly ==
  /\ Cardinality({k \in 1..Len(auth.trace) : auth.trace[k] = "goto"}) <= 1
  /\ auth.navigations <= auth.attempt
  /\ (AuthEnded /\ auth.error = "timeout") => auth.setup # "passed"
  /\ ~auth.ci => /\ auth.attempt <= 1
                 /\ auth.navigations <= 1
                 /\ auth.timeouts >= 1 => auth.setup = "failed"
  /\ auth.ci => /\ auth.attempt <= 3
                /\ auth.navigations <= 3
                /\ auth.timeouts >= 3 => auth.setup = "failed"

\* C18 witness: in CI the login timed out three times, after three navigations
C18_Witness ==
  /\ auth.ci
  /\ auth.navigations = 3
  /\ auth.timeouts = 3
  /\ auth.setup = "failed"

\* C19: a test of the browser project starts, and a SalesforceAPI is
\* constructed, only after the setup has passed and has written the
\* storage-state file; when the setup fails no dependent test runs.
C19_TestsAfterSetup ==
  /\ (auth.tests > 0 \/ auth.apis > 0) =>
       /\ auth.setup = "passed"
       /\ auth.step = "none"
       /\ auth.file # 0
       /\ auth.file = auth.attempt
  /\ auth.setup # "passed" => (auth.tests = 0 /\ auth.apis = 0)

\* C19 witness: the setup passed at its second attempt; two browser tests
\* have started and one has constructed its SalesforceAPI
C19_Witness ==
  /\ auth.setup = "passed"
  /\ auth.attempt = 2
  /\ auth.tests = 2
  /\ auth.apis >= 1

(* ======================= two TestDataManager instances ================= *)
\* Two tests run at once against one org, each with its own TestDataManager.
\* The variables of the manager are those of the instance that is looked at;
\* peer holds the other instance.  What the last call of an idle instance
\* left behind (atCall, issued, failures, ret, lastResp) is not kept for it.

\* the ids of a list of tracked records
IdsOf(records) == {records[i].id : i \in 1..Len(records)}

\* the ids of the records the instance that is looked at created
OwnedIds == (1..(nextId - 1)) \ peer.owned

\* a collection that is one for all instances (a static field)
Own_Static(records, peerRecords) == records

\* private createdRecords = []: each instance has its own collection
Own(records, peerRecords) == peerRecords

\* the other instance is looked at from now on
Switch ==
  /\ peer' = [createdRecords |-> createdRecords,
              pc |-> pc,
              call |-> call,
              atCall |-> IF pc = "idle" THEN <<>> ELSE atCall,
              issued |-> IF pc = "idle" THEN <<>> ELSE issued,
              failures |-> IF pc = "idle" THEN 0 ELSE failures,
              owned |-> OwnedIds]
  /\ createdRecords' = Own(createdRecords, peer.createdRecords)
  /\ pc' = peer.pc
  /\ call' = peer.call
  /\ atCall' = peer.atCall
  /\ issued' = peer.issued
  /\ failures' = peer.failures
  /\ ret' = NoRet
  /\ lastResp' = NoResp
  /\ UNCHANGED <<remote, nextId, calls, auth, store, obs, now>>

\* two tests create records, exclude them, and clean up, in any interleaving
NextTwo ==
  \/ CreateCall("createTestAccount", "")
  \/ CreateResponse
  \/ CleanupCall
  \/ CleanupResponse
  \/ \E id \in 1..MaxRecords : ExcludeFromCleanup(id)
  \/ Switch

SpecTwo == Init /\ [][NextTwo]_vars

NextCleanup ==
  \/ \E h \in {"createTestAccount", "createTestContact"} : CreateCall(h, "")
  \/ CreateCall("createTestRecord", "Custom__c")
  \/ CreateResponse
  \/ CleanupCall
  \/ CleanupResponse
  \/ \E id \in 1..MaxRecords : ExternalDelete(id)

\* every deleteRecord call of cleanup resolves or rejects in the end: the
\* response to a delete request that is out does arrive
SpecCleanup == Init /\ [][NextCleanup]_vars /\ WF_vars(CleanupResponse)

\* C21: given that every deleteRecord call resolves or rejects in the end,
\* every call of cleanup() returns in the end, normally, and only after a
\* deletion was attempted for every record that was tracked at its call; no
\* failure of a deletion stops it midway.
C21_CleanupRunsToCompletion ==
  (pc = "cleaning") ~>
    (/\ CleanupReturned
     /\ ret.ok
     /\ \A i \in 1..Len(atCall) : RequestsFor(atCall[i]) # {})

\* C21 witness: cleanup of three records returned after its first two
\* deletions, at least, failed
C21_Witness ==
  /\ CleanupReturned
  /\ Len(atCall) = 3
  /\ Len(issued) = 3
  /\ failures >= 2

(* ======================= the payloads of the helpers =================== *)
\* A JavaScript object is a function from its keys to their values; a string
\* value is a text, '' is the empty text, and undefined is the value Undef,
\* which is no text a test passes.
Undef == <<"(undefined)">>

\* x || d
Or(x, d) == IF x = Undef \/ x = <<>> THEN d ELSE x

\* an optional object argument: left out, or an object
NoData == [given |-> FALSE, fields |-> <<>>]
Data(fields) == [given |-> TRUE, fields |-> fields]

\* data?.key
Get(data, key) ==
  IF data.given /\ key \in DOMAIN data.fields THEN data.fields[key] ELSE Undef

\* { ...base, ...data }: a key of data replaces the key of base, whatever its value
Spread(base, data) ==
  IF ~data.given THEN base
  ELSE [k \in DOMAIN base \cup DOMAIN data.fields |->
          IF k \in DOMAIN data.fields THEN data.fields[k] ELSE base[k]]

\* `${v}`
TemplateText(v) == IF v = Undef THEN Lit("undefined") ELSE v

\* JSON.stringify(data), as the remote parses it: a key whose value is
\* undefined is left out
Stringify(data) == [k \in {key \in DOMAIN data : data[key] # Undef} |-> data[k]]

\* the last millisecond of a run
MaxNow == 1

\* `${Date.now()}`
TimeText(t) == <<DigitChar[(t % 10) + 1]>>

\* a record id, as text
IdText(id) == <<"id-", DigitChar[id + 1]>>

\* const uniqueName = name || `TestAccount_${Date.now()}`
uniqueName(name, t) == Or(name, Lit("TestAccount_") \o TimeText(t))

\* const accountData = { Name: uniqueName, Type: 'Prospect', Industry: 'Technology', ...additionalData }
accountData(name, additionalData, t) ==
  Spread([Name |-> uniqueName(name, t), Type |-> Lit("Prospect"), Industry |-> Lit("Technology")],
         additionalData)

\* a payload that leaves the parent out
contactData_NoParent(accountId, data, t) ==
  Spread([FirstName |-> Or(Get(data, "FirstName"), Lit("TestFirst")),
          LastName |-> Or(Get(data, "LastName"), Lit("TestLast_") \o TimeText(t)),
          Email |-> Or(Get(data, "Email"), Lit("test.") \o TimeText(t) \o Lit("@example.com"))],
         data)

\* const contactData = { AccountId: accountId, FirstName: data?.FirstName || 'TestFirst', ..., ...data }
contactData(accountId, data, t) ==
  Spread([AccountId |-> accountId,
          FirstName |-> Or(Get(data, "FirstName"), Lit("TestFirst")),
          LastName |-> Or(Get(data, "LastName"), Lit("TestLast_") \o TimeText(t)),
          Email |-> Or(Get(data, "Email"), Lit("test.") \o TimeText(t) \o Lit("@example.com"))],
         data)

\* const fullName = `${contactData.FirstName} ${contactData.LastName}`
fullName(contact) ==
  TemplateText(contact["FirstName"]) \o Lit(" ") \o TemplateText(contact["LastName"])

\* closeDate.toISOString().split('T')[0], thirty days after the call
closeDateString(t) == Lit("thirty days after ") \o TimeText(t)

\* const opportunityData = { AccountId: accountId, Name: data?.Name || `TestOpportunity_${timestamp}`, ..., ...data }
opportunityData(accountId, data, t) ==
  Spread([AccountId |-> accountId,
          Name |-> Or(Get(data, "Name"), Lit("TestOpportunity_") \o TimeText(t)),
          StageName |-> Lit("Prospecting"),
          CloseDate |-> Or(Get(data, "CloseDate"), closeDateString(t)),
          Amount |-> Or(Get(data, "Amount"), Lit("ten thousand"))],
         data)

\* the object a helper hands to createRecord
HelperPayload(helper, name, accountId, data, t) ==
  CASE helper = "createTestAccount" -> accountData(name, data, t)
    [] helper = "createTestContact" -> contactData(accountId, data, t)
    [] OTHER -> opportunityData(accountId, data, t)

\* the name a helper tracks and returns
HelperName(helper, name, payload, t) ==
  CASE helper = "createTestAccount" -> uniqueName(name, t)
    [] helper = "createTestContact" -> fullName(payload)
    [] OTHER -> payload["Name"]

\* this.createdRecords.push({ type, id, name })
TrackNamed(records, type, id, name) ==
  Append(records, [type |-> type, id |-> id, name |-> name])

\* the record the remote stores for a request body
Stored(objectType, body) == [type |-> objectType, fields |-> body]

\* the arguments the tests pass
AccountNames == {Undef, <<>>, Lit("Parent Company")}
AccountFields == {NoData, Data([Name |-> Lit("Other Name")]), Data([Industry |-> Lit("Finance")])}
ContactFields ==
  {NoData, Data(<<>>),
   Data([FirstName |-> Lit("Taro"), LastName |-> Lit("Tanaka"), Email |-> Lit("taro@example.com")]),
   Data([LastName |-> Lit("Tanaka")]),
   Data([FirstName |-> <<>>]),
   Data([Email |-> Undef])}
OpportunityFields == {NoData, Data([Name |-> Lit("Big Deal")]), Data([Amount |-> <<>>])}

\* no count taken yet
NoCount == [ok |-> FALSE, value |-> 0, matching |-> {}]

\* the count the test took before and holds in a local variable
LastCount ==
  IF obs.op = "countRecords" THEN [ok |-> obs.ok, value |-> obs.value, matching |-> obs.matching]
  ELSE IF obs.op \in Helpers THEN obs.before
  ELSE NoCount

\* time passes
Tick ==
  /\ now < MaxNow
  /\ now' = now + 1
  /\ UNCHANGED <<createdRecords, remote, nextId, pc, call, atCall, issued, failures, ret,
                 lastResp, calls, auth, peer, store, obs>>

\* a helper is called with its arguments: it reads the clock, builds the
\* payload and awaits api.createRecord, which sends the payload as JSON
HelperCall(helper, name, accountId, data) ==
  LET payload == HelperPayload(helper, name, IdText(accountId), data, now)
  IN /\ pc = "idle"
     /\ nextId <= MaxRecords
     /\ pc' = "creating"
     /\ call' = [NoCall EXCEPT !.op = helper]
     /\ atCall' = createdRecords
     /\ issued' = <<Request("POST", SentType(helper, ""), NeverId)>>
     /\ failures' = 0
     /\ lastResp' = NoResp
     /\ ret' = NoRet
     /\ obs' = [op |-> helper, name |-> name, accountId |-> accountId, data |-> data,
                payload |-> payload, body |-> Stringify(payload),
                result |-> HelperName(helper, name, payload, now), id |-> NeverId,
                before |-> LastCount]
     /\ UNCHANGED <<createdRecords, remote, nextId, calls, auth, peer, store, now>>

\* the response arrives: on success the remote holds the record with the
\* fields of the body, and the helper tracks it and returns its id and name
HelperResponse ==
  /\ pc = "creating"
  /\ \E resp \in CreateResponses(nextId) :
       LET result == createRecord(SentType(call.op, ""), resp)
       IN /\ lastResp' = resp
          /\ IF result.ok
             THEN /\ remote' = remote \cup {resp.id}
                  /\ store' = Append(store, Stored(SentType(call.op, ""), obs.body))
                  /\ nextId' = nextId + 1
                  /\ createdRecords' =
                       TrackNamed(createdRecords, TrackedType(call.op, ""), result.id, obs.result)
                  /\ ret' = Ret(call.op, Resolved(result.id), obs.result)
                  /\ obs' = [obs EXCEPT !.id = result.id]
             ELSE /\ UNCHANGED <<remote, store, nextId, createdRecords, obs>>
                  /\ ret' = Ret(call.op, result, <<>>)
  /\ pc' = "idle"
  /\ call' = NoCall
  /\ UNCHANGED <<atCall, issued, failures, calls, auth, peer, now>>

\* the ids of the tracked accounts: the parents a test has at hand
AccountIds == {createdRecords[i].id : i \in {j \in 1..Len(createdRecords) : createdRecords[j].type = "Account"}}

\* the helper calls of one test
MaxNamed == 2

\* a test makes at most MaxNamed records, with any of the arguments above
PayloadCall ==
  /\ nextId <= MaxNamed
  /\ \/ \E name \in AccountNames, data \in AccountFields :
          HelperCall("createTestAccount", name, NeverId, data)
     \/ \E id \in AccountIds, data \in ContactFields :
          HelperCall("createTestContact", Undef, id, data)
     \/ \E id \in AccountIds, data \in OpportunityFields :
          HelperCall("createTestOpportunity", Undef, id, data)

NextPayload ==
  \/ Tick
  \/ PayloadCall
  \/ HelperResponse

SpecPayload == Init /\ [][NextPayload]_vars

(* ===================== the lifecycle of a test's records =============== *)
\* getRecord without its check of response.ok
getRecord_NoOkCheck(objectType, resp) ==
  IF resp.kind = "network"
  THEN Rejected(Lit("Failed to get <objectType> record: TypeError: ") \o resp.body)
  ELSE Resolved(resp.id)

\* SalesforceAPI.getRecord: the outcome of the call for a given response
getRecord(objectType, resp) ==
  IF resp.kind = "network"
  THEN Rejected(Lit("Failed to get <objectType> record: TypeError: ") \o resp.body)
  ELSE IF ~ResponseOk(resp.status)
  THEN Rejected(Lit("Failed to get <objectType> record: Error: ")
                \o Lit("Failed to get record (") \o StatusText(resp.status) \o Lit("): ") \o resp.body)
  ELSE Resolved(resp.id)

\* does the remote hold a record of this type under this id?
Holds(objectType, id) ==
  id \in remote /\ id \in DOMAIN store /\ store[id].type = objectType

\* what the remote may answer to GET /sobjects/<objectType>/<id>
GetResponses(objectType, id) ==
  (IF Holds(objectType, id) THEN {HttpResp(200, <<>>, id)}
   ELSE {HttpResp(404, Lit("NOT_FOUND"), NeverId)})
  \cup {HttpResp(s, b, NeverId) : s \in ErrorStatuses, b \in Bodies}
  \cup {NetworkFailure}

\* response.json() of a successful GET with ?fields=: the fields asked for
\* that the record has, and its Id
RecordJson(id, fields) ==
  LET rec == store[id].fields
  IN [k \in ((DOMAIN rec \cap fields) \cup {"Id"}) |-> IF k = "Id" THEN IdText(id) ELSE rec[k]]

\* the fields the test asks for
ContactQueryFields == {"AccountId", "FirstName", "LastName", "Email"}

\* the helper call whose result the test holds in a local variable
LastCreated == IF obs.op \in Helpers THEN obs ELSE IF obs.op = "getRecord" THEN obs.created ELSE NoObs

\* api.getRecord(objectType, id, fields) is called and issues its request
GetRecordCall(objectType, id) ==
  /\ pc = "idle"
  /\ id < nextId
  /\ pc' = "getting"
  /\ call' = [NoCall EXCEPT !.op = "getRecord", !.type = objectType]
  /\ atCall' = createdRecords
  /\ issued' = <<Request("GET", objectType, id)>>
  /\ failures' = 0
  /\ lastResp' = NoResp
  /\ ret' = NoRet
  /\ obs' = [op |-> "getRecord", type |-> objectType, id |-> id, created |-> LastCreated,
             deleted |-> /\ pc = "idle" /\ ret.op = "cleanup"
                         /\ \E i \in 1..Len(atCall) : atCall[i].id = id
                         /\ \A i \in 1..Len(atCall) : atCall[i].id \notin remote,
             record |-> <<>>]
  /\ UNCHANGED <<createdRecords, remote, nextId, calls, auth, peer, store, now>>

\* the response arrives: getRecord resolves with the record or rejects
GetRecordResponse ==
  /\ pc = "getting"
  /\ \E resp \in GetResponses(obs.type, obs.id) :
       LET outcome == getRecord(obs.type, resp)
       IN /\ lastResp' = resp
          /\ ret' = Ret("getRecord", outcome, <<>>)
          /\ obs' = [obs EXCEPT !.record = IF outcome.ok /\ resp.id \in DOMAIN store
                                           THEN RecordJson(resp.id, ContactQueryFields)
                                           ELSE <<>>]
  /\ pc' = "idle"
  /\ call' = NoCall
  /\ UNCHANGED <<createdRecords, remote, nextId, atCall, issued, failures, calls, auth, peer,
                 store, now>>

\* the arguments of the scenario: a named or an unnamed account, a contact
\* with or without fields of its own
LifecycleCall ==
  \/ \E name \in {Undef, Lit("Parent Company")} : HelperCall("createTestAccount", name, NeverId, NoData)
  \/ \E id \in AccountIds :
       \E data \in {NoData, Data([FirstName |-> Lit("Taro"), LastName |-> Lit("Tanaka"),
                                  Email |-> Lit("taro@example.com")])} :
         HelperCall("createTestContact", Undef, id, data)

NextLifecycle ==
  \/ LifecycleCall
  \/ HelperResponse
  \/ \E objectType \in {"Account", "Contact"}, id \in 1..MaxRecords : GetRecordCall(objectType, id)
  \/ GetRecordResponse
  \/ CleanupCall
  \/ CleanupResponse

SpecLifecycle == Init /\ [][NextLifecycle]_vars

\* the test awaited getRecord and holds its result
GetRecordReturned == pc = "idle" /\ ret.op = "getRecord" /\ obs.op = "getRecord"

\* C22: after createTestContact(A.id) yielded C, a getRecord('Contact', C.id)
\* that resolves reports AccountId = A.id; and a getRecord for a record that
\* was tracked when cleanup() was called, made after that cleanup returned
\* with none of its records left in the remote store, rejects, with the
\* remote's 404 in its error when the remote answered not found.
C22_LifecycleOfARecord ==
  GetRecordReturned =>
    /\ (/\ ret.ok
        /\ obs.created.op = "createTestContact"
        /\ obs.type = "Contact"
        /\ obs.id = obs.created.id)
         => /\ "AccountId" \in DOMAIN obs.record
            /\ obs.record["AccountId"] = IdText(obs.created.accountId)
    /\ obs.deleted
         => /\ ~ret.ok
            /\ (lastResp.kind = "http" /\ lastResp.status = 404) => Includes404(ret.error)

\* account and contact were created, cleanup deleted both, and the getRecord
\* of the contact was answered not found
C22_Witness ==
  /\ GetRecordReturned
  /\ obs.deleted
  /\ obs.created.op = "createTestContact"
  /\ obs.id = obs.created.id
  /\ obs.created.accountId \notin remote
  /\ lastResp.kind = "http"
  /\ lastResp.status = 404
  /\ ~ret.ok

\* the getRecord of a contact just created resolved with its parent
C22_ParentReported ==
  /\ GetRecordReturned
  /\ ret.ok
  /\ obs.created.op = "createTestContact"
  /\ obs.id = obs.created.id
  /\ obs.created.data.given

(* ============================ counting ================================= *)
\* let soql = `SELECT COUNT() FROM ${objectType}`; if (whereClause) soql += ` WHERE ${whereClause}`
countSoql(objectType, whereClause) ==
  <<"SELECT COUNT() FROM ", objectType>>
  \o (IF whereClause = Undef \/ whereClause = <<>> THEN <<>> ELSE Lit(" WHERE ") \o whereClause)

\* "Industry = 'Technology'"
TechnologyClause == <<"Industry", " = ", "Technology">>

\* the records of the remote store that a counting query selects
Matching(soql) ==
  {id \in remote :
     /\ id \in DOMAIN store
     /\ store[id].type = soql[2]
     /\ Len(soql) > 2 =>
          /\ soql[4] \in DOMAIN store[id].fields
          /\ store[id].fields[soql[4]] = Lit(soql[6])}

\* a response to GET /query?q=<soql> (totalSize: the totalSize of its JSON body)
QueryResp(status, body, totalSize) ==
  [kind |-> "http", status |-> status, body |-> body, id |-> NeverId, totalSize |-> totalSize]

\* what the remote may answer to GET /query, which carries no q
PreflightResponses == {HttpResp(400, Lit("MALFORMED_QUERY"), NeverId), NetworkFailure}

\* what the remote may answer to GET /query?q=<soql>
QueryResponses(soql) ==
  {QueryResp(200, <<>>, Cardinality(Matching(soql)))}
  \cup {QueryResp(s, b, 0) : s \in ErrorStatuses, b \in Bodies}
  \cup {NetworkFailure}

\* a query that returns the JSON of its first response
query_FirstResponse(first, actualResponse) ==
  IF first.kind = "network" \/ actualResponse.kind = "network"
  THEN Rejected(Lit("Failed to execute SOQL query: TypeError: ") \o Lit("fetch failed"))
  ELSE Resolved(NeverId)

\* SalesforceAPI.query: the outcome of the call for the responses to its two
\* requests; it resolves with the JSON of the second (here: its totalSize)
query(first, actualResponse) ==
  IF first.kind = "network" \/ actualResponse.kind = "network"
  THEN Rejected(Lit("Failed to execute SOQL query: TypeError: ") \o Lit("fetch failed"))
  ELSE IF ~ResponseOk(actualResponse.status)
  THEN Rejected(Lit("Failed to execute SOQL query: Error: ")
                \o Lit("SOQL query failed (") \o StatusText(actualResponse.status) \o Lit("): ")
                \o actualResponse.body)
  ELSE Resolved(actualResponse.totalSize)

\* api.countRecords(objectType, whereClause) is called: it builds the SOQL
\* and awaits query, which issues its first request
CountRecordsCall(objectType, whereClause) ==
  /\ pc = "idle"
  /\ pc' = "preflight"
  /\ call' = [NoCall EXCEPT !.op = "countRecords", !.type = objectType]
  /\ atCall' = createdRecords
  /\ issued' = <<Request("GET", "query", NeverId)>>
  /\ failures' = 0
  /\ lastResp' = NoResp
  /\ ret' = NoRet
  /\ obs' = [op |-> "countRecords", soql |-> countSoql(objectType, whereClause),
             ok |-> FALSE, value |-> 0, matching |-> {}, before |-> LastCount]
  /\ UNCHANGED <<createdRecords, remote, nextId, calls, auth, peer, store, now>>

\* the response to the first request arrives: its content is not looked at,
\* and query issues the request that carries the SOQL
QueryPreflightResponse ==
  /\ pc = "preflight"
  /\ \E first \in PreflightResponses :
       IF first.kind = "network"
       THEN /\ pc' = "idle"
            /\ call' = NoCall
            /\ lastResp' = first
            /\ ret' = Ret(call.op, query(first, first), <<>>)
            /\ UNCHANGED issued
       ELSE /\ pc' = "querying"
            /\ issued' = Append(issued, Request("GET", "query?q=", NeverId))
            /\ UNCHANGED <<call, lastResp, ret>>
  /\ UNCHANGED <<createdRecords, remote, nextId, atCall, failures, calls, auth, peer, store,
                 obs, now>>

\* the response to the second request arrives: query resolves with its JSON
\* or rejects, and countRecords returns result.totalSize
QueryResponse ==
  /\ pc = "querying"
  /\ \E actualResponse \in QueryResponses(obs.soql) :
       LET outcome == query(HttpResp(400, <<>>, NeverId), actualResponse)
       IN /\ lastResp' = actualResponse
          /\ ret' = Ret(call.op, outcome, <<>>)
          /\ obs' = IF outcome.ok
                    THEN [obs EXCEPT !.ok = TRUE, !.value = outcome.id, !.matching = Matching(obs.soql)]
                    ELSE obs
  /\ pc' = "idle"
  /\ call' = NoCall
  /\ UNCHANGED <<createdRecords, remote, nextId, atCall, issued, failures, calls, auth, peer,
                 store, now>>

\* another worker creates an account of its own through its own manager
OtherCreate(industry) ==
  /\ nextId <= MaxRecords
  /\ remote' = remote \cup {nextId}
  /\ store' = Append(store, Stored("Account",
                 Stringify(accountData(Lit("Other Worker"), Data([Industry |-> industry]), now))))
  /\ nextId' = nextId + 1
  /\ peer' = [peer EXCEPT !.owned = @ \cup {nextId}]
  /\ UNCHANGED <<createdRecords, pc, call, atCall, issued, failures, ret, lastResp, calls, auth,
                 obs, now>>

\* the cleanup of another worker deletes one of its accounts
OtherCleanup(id) ==
  /\ id \in peer.owned \cap remote
  /\ remote' = remote \ {id}
  /\ UNCHANGED <<createdRecords, nextId, pc, call, atCall, issued, failures, ret, lastResp, calls,
                 auth, peer, store, obs, now>>

NextCount ==
  \/ \E data \in {NoData, Data([Industry |-> Lit("Finance")])} :
       HelperCall("createTestAccount", Lit("Count Test"), NeverId, data)
  \/ HelperResponse
  \/ CountRecordsCall("Account", TechnologyClause)
  \/ QueryPreflightResponse
  \/ QueryResponse
  \/ \E industry \in {Lit("Technology"), Lit("Finance")} : OtherCreate(industry)
  \/ \E id \in 1..MaxRecords : OtherCleanup(id)

SpecCount == Init /\ [][NextCount]_vars

\* the test awaited countRecords and holds its value
CountReturned == pc = "idle" /\ ret.op = "countRecords" /\ obs.op = "countRecords" /\ ret.ok

\* the matching accounts that the manager of the test tracks
OwnMatching(matching) == matching \cap IdsOf(createdRecords)

\* between the count before and this count the test created exactly two
\* matching accounts through createTestAccount
TwoCreated ==
  /\ obs.before.ok
  /\ OwnMatching(obs.before.matching) \subseteq OwnMatching(obs.matching)
  /\ Cardinality(OwnMatching(obs.matching) \ OwnMatching(obs.before.matching)) = 2

\* no matching account of another worker appeared or disappeared in between
OthersUnchanged ==
  obs.matching \ IdsOf(createdRecords) = obs.before.matching \ IdsOf(createdRecords)

\* C23 as stated: the count taken after creating two Technology accounts is
\* exactly 2 more than the count taken before, whatever other workers did to
\* the same remote store in between.
C23_CountGrowsByTwo ==
  (CountReturned /\ TwoCreated) => obs.value = obs.before.value + 2

\* C23 amended: countRecords returns the totalSize of the response to the
\* counting query, which is the number of matching records in the remote
\* store when the query is answered; the count after differs from the count
\* before by the matching records that appeared less those that disappeared
\* in between, which is exactly 2 when the two accounts of the test are the
\* only change.
C23_CountIsTotalSize ==
  CountReturned =>
    /\ obs.value = lastResp.totalSize
    /\ obs.before.ok =>
         obs.value + Cardinality(obs.before.matching \ obs.matching)
           = obs.before.value + Cardinality(obs.matching \ obs.before.matching)
    /\ (TwoCreated /\ OthersUnchanged) => obs.value = obs.before.value + 2

\* two accounts were created between two counts, next to the account of
\* another worker that both counts saw
C23_Witness ==
  /\ CountReturned
  /\ TwoCreated
  /\ OthersUnchanged
  /\ obs.before.value = 1
  /\ obs.value = 3

(* --------------------- claims about the payloads ----------------------- *)
\* the tracked accounts whose name createTestAccount generated
GeneratedAccounts ==
  {i \in 1..Len(createdRecords) :
     /\ createdRecords[i].type = "Account"
     /\ createdRecords[i].name[1] = "TestAccount_"}

\* C24 as stated: two createTestAccount() calls without a name produce
\* distinct generated names, also when both read the same clock value.
C24_GeneratedNamesDistinct ==
  \A i \in GeneratedAccounts, j \in GeneratedAccounts :
    i # j => createdRecords[i].name # createdRecords[j].name

\* the helper is suspended on, or has returned from, the createRecord of a contact
ContactSent == obs.op = "createTestContact"

\* C26 as stated: the payload createTestContact sends always has FirstName,
\* LastName and Email present and non-empty and AccountId equal to the given
\* parent id, whatever the fields argument.
C26_ContactPayloadPopulated ==
  ContactSent =>
    /\ \A k \in {"FirstName", "LastName", "Email"} : k \in DOMAIN obs.body /\ obs.body[k] # <<>>
    /\ "AccountId" \in DOMAIN obs.body
    /\ obs.body["AccountId"] = IdText(obs.accountId)

\* the name that the payload sent for a record carries
SentName(helper, body) ==
  IF helper = "createTestContact"
  THEN IF {"FirstName", "LastName"} \subseteq DOMAIN body
       THEN body["FirstName"] \o Lit(" ") \o body["LastName"]
       ELSE Undef
  ELSE IF "Name" \in DOMAIN body THEN body["Name"] ELSE Undef

\* a helper returned the id and the name of the record it created
HelperReturned == pc = "idle" /\ ret.op \in Helpers /\ ret.op = obs.op /\ ret.ok

\* C30 as stated: the name a helper returns and stores in the tracked record
\* equals the name in the payload it sent, for every combination of name
\* argument and extra fields.
C30_NameMatchesPayload ==
  HelperReturned =>
    /\ ret.value = SentName(obs.op, obs.body)
    /\ createdRecords[Len(createdRecords)].name = SentName(obs.op, obs.body)

(* ===================== the REST client, call by call =================== *)
\* SalesforceAPI.updateRecord: the outcome of the call for a given response
updateRecord(objectType, resp) ==
  IF resp.kind = "network"
  THEN Rejected(Lit("Failed to update <objectType> record: TypeError: ") \o resp.body)
  ELSE IF ~ResponseOk(resp.status)
  THEN Rejected(Lit("Failed to update <objectType> record: Error: ")
                \o Lit("Record update failed (") \o StatusText(resp.status) \o Lit("): ") \o resp.body)
  ELSE Resolved(NeverId)

\* what the remote may answer to PATCH /sobjects/<objectType>/<id>
UpdateResponses(objectType, id) ==
  (IF Holds(objectType, id) THEN {HttpResp(204, <<>>, NeverId)}
   ELSE {HttpResp(404, Lit("NOT_FOUND"), NeverId)})
  \cup {HttpResp(s, b, NeverId) : s \in ErrorStatuses, b \in Bodies}
  \cup {NetworkFailure}

\* the fields of a record after a PATCH with this body
Patched(fields, body) ==
  [k \in DOMAIN fields \cup DOMAIN body |-> IF k \in DOMAIN body THEN body[k] ELSE fields[k]]

\* what a call of the REST client that is not suspended leaves behind
RestCall ==
  /\ pc = "idle"
  /\ atCall' = createdRecords
  /\ failures' = 0
  /\ UNCHANGED <<createdRecords, pc, call, calls, auth, peer, now>>

\* await api.createRecord(objectType, data): the request, its response, and
\* the record the remote stores
RestCreateRecord(objectType, data) ==
  /\ RestCall
  /\ \E resp \in CreateResponses(nextId) :
       LET result == createRecord(objectType, resp)
       IN /\ lastResp' = resp
          /\ remote' = IF result.ok THEN remote \cup {resp.id} ELSE remote
          /\ store' = IF result.ok THEN Append(store, Stored(objectType, Stringify(data))) ELSE store
          /\ nextId' = IF result.ok THEN nextId + 1 ELSE nextId
          /\ ret' = Ret("createRecord", result, <<>>)
          /\ obs' = [op |-> "createRecord", type |-> objectType, id |-> result.id]
  /\ issued' = <<Request("POST", objectType, NeverId)>>

\* await api.updateRecord(objectType, recordId, data): the request and its response
RestUpdateRecord(objectType, recordId, data) ==
  /\ RestCall
  /\ recordId < nextId
  /\ \E resp \in UpdateResponses(objectType, recordId) :
       LET result == updateRecord(objectType, resp)
       IN /\ lastResp' = resp
          /\ store' = IF resp.kind = "http" /\ resp.status = 204
                      THEN [store EXCEPT ![recordId].fields = Patched(@, Stringify(data))]
                      ELSE store
          /\ ret' = Ret("updateRecord", result, <<>>)
          /\ obs' = [op |-> "updateRecord", type |-> objectType, id |-> recordId]
  /\ issued' = <<Request("PATCH", objectType, recordId)>>
  /\ UNCHANGED <<remote, nextId>>

\* await api.deleteRecord(objectType, recordId): the request and its response
RestDeleteRecord(objectType, recordId) ==
  /\ RestCall
  /\ recordId < nextId
  /\ \E resp \in DeleteResponses(remote, recordId) :
       /\ lastResp' = resp
       /\ remote' = StoreAfterDelete(remote, recordId, resp)
       /\ ret' = Ret("deleteRecord", deleteRecord(objectType, resp), <<>>)
  /\ obs' = [op |-> "deleteRecord", type |-> objectType, id |-> recordId]
  /\ issued' = <<Request("DELETE", objectType, recordId)>>
  /\ UNCHANGED <<nextId, store>>

\* api.query(soql) is called and issues its first request
QueryCall(soql) ==
  /\ pc = "idle"
  /\ pc' = "preflight"
  /\ call' = [NoCall EXCEPT !.op = "query"]
  /\ atCall' = createdRecords
  /\ issued' = <<Request("GET", "query", NeverId)>>
  /\ failures' = 0
  /\ lastResp' = NoResp
  /\ ret' = NoRet
  /\ obs' = [op |-> "query", soql |-> soql, ok |-> FALSE, value |-> 0, matching |-> {},
             before |-> NoCount]
  /\ UNCHANGED <<createdRecords, remote, nextId, calls, auth, peer, store, now>>

\* the records and the fields the tests of the client send
RestTypes == {"Account", "Contact"}
CreateBody == [Name |-> Lit("Test Company")]
UpdateBody == [Phone |-> Lit("03-1234-5678")]

\* the records one test of the client creates
MaxRest == 2

NextRest ==
  \/ \E t \in RestTypes : nextId <= MaxRest /\ RestCreateRecord(t, CreateBody)
  \/ \E t \in RestTypes, id \in 1..MaxRest : RestUpdateRecord(t, id, UpdateBody)
  \/ \E t \in RestTypes, id \in 1..MaxRest : RestDeleteRecord(t, id)
  \/ \E t \in RestTypes, id \in 1..MaxRest : GetRecordCall(t, id)
  \/ GetRecordResponse
  \/ QueryCall(<<"SELECT Id, Name FROM ", "Account">>)
  \/ CountRecordsCall("Account", Undef)
  \/ QueryPreflightResponse
  \/ QueryResponse

SpecRest == Init /\ [][NextRest]_vars

\* text holds part
Contains(text, part) ==
  \E i \in 1..(Len(text) - Len(part) + 1) : SubSeq(text, i, i + Len(part) - 1) = part

\* a call of one of the four operations returned; lastResp is the response it acted on
RestReturned ==
  /\ pc = "idle"
  /\ ret.op \in {"query", "createRecord", "getRecord", "updateRecord"}
  /\ obs.op = ret.op

\* C25: query, createRecord, getRecord and updateRecord reject exactly when
\* the response is not a success status or the request itself failed, and
\* resolve otherwise; the error of a rejected call carries the status and the
\* body of the response; getRecord for a record the remote does not hold
\* rejects.
C25_RejectsExactlyOnFailure ==
  RestReturned =>
    /\ ret.ok <=> (lastResp.kind = "http" /\ ResponseOk(lastResp.status))
    /\ (~ret.ok /\ lastResp.kind = "http")
         => /\ Contains(ret.error, StatusText(lastResp.status))
            /\ Contains(ret.error, lastResp.body)
    /\ (ret.op = "getRecord" /\ ~Holds(obs.type, obs.id)) => ~ret.ok

\* an update of a record that is gone was answered 404 and rejected with it
C25_Witness ==
  /\ RestReturned
  /\ ret.op = "updateRecord"
  /\ obs.id < nextId
  /\ obs.id \notin remote
  /\ lastResp.kind = "http"
  /\ lastResp.status = 404
  /\ ~ret.ok
  /\ Contains(ret.error, <<"4", "0", "4">>)

\* a call of any operation of the client returned
AnyRestReturned ==
  /\ pc = "idle"
  /\ ret.op \in {"query", "countRecords", "createRecord", "getRecord", "updateRecord", "deleteRecord"}
  /\ obs.op = ret.op

\* C29 as stated: every operation of the client issues exactly one HTTP
\* request per invocation, countRecords exactly one through query.
C29_OneRequestPerCall ==
  AnyRestReturned => Len(issued) = 1

(* ============== calls in flight on one manager at a time =============== *)
\* A test that does not await a call before it makes the next one has two
\* calls of the same manager suspended together.  The variables pc, call,
\* atCall, issued and failures describe the call that runs next; peer holds
\* those of the other call.  Both work on the one createdRecords.

\* the other call is the one that goes on: the test makes a further call
\* while the first is suspended, or the response of the other call arrives
Yield ==
  /\ pc # "idle" \/ peer.pc # "idle"
  /\ peer' = [peer EXCEPT !.pc = pc, !.call = call, !.atCall = atCall, !.issued = issued,
                          !.failures = failures]
  /\ pc' = peer.pc
  /\ call' = peer.call
  /\ atCall' = peer.atCall
  /\ issued' = peer.issued
  /\ failures' = peer.failures
  /\ ret' = NoRet
  /\ lastResp' = NoResp
  /\ UNCHANGED <<createdRecords, remote, nextId, calls, auth, store, obs, now>>

NextInFlight ==
  \/ CreateCall("createTestAccount", "")
  \/ CreateCall("createTestRecord", "Custom__c")
  \/ CreateResponse
  \/ CleanupCall
  \/ CleanupResponse
  \/ Yield

SpecInFlight == Init /\ [][NextInFlight]_vars

\* the delete requests for a record in a log of requests
DeletesIn(log, id) == {j \in 1..Len(log) : log[j].method = "DELETE" /\ log[j].id = id}

\* C27 as stated: a record whose creation completes while cleanup() of the
\* same manager is in flight is never lost: when that cleanup returns, every
\* record that was tracked is still tracked or was passed to deleteRecord.
C27_NoRecordLost ==
  [][(pc = "cleaning" /\ pc' = "idle")
       => \A i \in 1..Len(createdRecords) :
            \/ \E j \in 1..Len(createdRecords') : createdRecords'[j] = createdRecords[i]
            \/ DeletesIn(issued', createdRecords[i].id) # {}
            \/ DeletesIn(peer.issued, createdRecords[i].id) # {}]_vars

\* C28 as stated: two overlapping cleanup() calls on the same manager
\* together issue at most one deleteRecord per tracked record.
C28_OneDeletePerRecord ==
  \A id \in 1..MaxRecords :
    Cardinality(DeletesIn(issued, id)) + Cardinality(DeletesIn(peer.issued, id)) <= 1

====
